---- MODULE Spec2Model ----
(***************************************************************************)
(* Model of the IO relay of packages/jstack/src/server/io.ts: the          *)
(* targetRoom field, the prefix chosen at construction, and the            *)
(* operations to, emit, getClientsInRoom and close.  emit and              *)
(* getClientsInRoom are asynchronous: each runs synchronously up to its    *)
(* await on the store and resumes when the store settles the request, so   *)
(* each is one action up to the await and one action from it.              *)
(***************************************************************************)
EXTENDS Integers, Sequences, FiniteSets, TLC

\* ------------------------------------------------------------------ bounds
\* number of callers that may have a call in flight on the one instance
MaxCallers == 2

Callers == 1..MaxCallers

\* ------------------------------------------------------------------ inputs
\* an optional string is <<>> (absent / null) or <<s>>
Null == <<>>

Some(s) == <<s>>

\* room arguments of to and getClientsInRoom ("" is the empty room name)
Rooms == {"", "lobby", "den"}

\* the options argument of the constructor: no prefix, or a prefix string
PrefixOptions == {Null, Some(""), Some("io"), Some("app")}

\* event names of the OutgoingEvents map (the relay treats them all alike)
Events == {"chat"}

\* failures the store client can settle a request with
StoreErrors == {"ENETWORK", "EAUTH"}

\* the failure JSON.stringify raises on a value it cannot serialise
SerializeError == "TypeError"

\* JavaScript values, as nodes [s: text, t: tag, kids: children]
Undefined == [s |-> "", t |-> "undefined", kids |-> <<>>]

JNull == [s |-> "", t |-> "null", kids |-> <<>>]

Num(n) == [s |-> n, t |-> "number", kids |-> <<>>]

Str(x) == [s |-> x, t |-> "string", kids |-> <<>>]

BigIntV(n) == [s |-> n, t |-> "bigint", kids |-> <<>>]

Arr(elems) == [s |-> "", t |-> "array", kids |-> elems]

\* an object is a sequence of members, each a node holding its key and value
Member(key, val) == [s |-> key, t |-> "member", kids |-> <<val>>]

Obj(members) == [s |-> "", t |-> "object", kids |-> members]

\* data arguments of emit
Payloads ==
  { BigIntV("1"),
    Undefined,
    Arr(<<Num("1"), Str("c1")>>),
    Obj(<<Member("msg", Str("hi"))>>) }

\* ------------------------------------------------------- JSON.stringify/parse
Tok(k, s) == [s |-> s, k |-> k]

RECURSIVE CanStringify(_)
\* JSON.stringify raises a TypeError on a BigInt anywhere in the value
CanStringify(v) ==
  /\ v.t # "bigint"
  /\ \A i \in 1..Len(v.kids) : CanStringify(v.kids[i])

RECURSIVE Stringify(_, _)
RECURSIVE StringifyElems(_, _)
RECURSIVE StringifyMembers(_, _, _)
\* the text JSON.stringify produces, as its sequence of tokens; inArray says
\* the value is an array element, where undefined is written as null
Stringify(v, inArray) ==
  CASE v.t = "string" -> <<Tok("str", v.s)>>
    [] v.t = "number" -> IF v.s = "NaN" THEN <<Tok("lit", "null")>>
                         ELSE <<Tok("num", v.s)>>
    [] v.t = "null" -> <<Tok("lit", "null")>>
    [] v.t = "undefined" -> IF inArray THEN <<Tok("lit", "null")>> ELSE <<>>
    [] v.t = "array" ->
         <<Tok("punct", "[")>> \o StringifyElems(v.kids, 1) \o <<Tok("punct", "]")>>
    [] v.t = "object" ->
         <<Tok("punct", "{")>> \o StringifyMembers(v.kids, 1, TRUE)
           \o <<Tok("punct", "}")>>
    [] OTHER -> <<>>

StringifyElems(elems, i) ==
  IF i > Len(elems) THEN <<>>
  ELSE (IF i > 1 THEN <<Tok("punct", ",")>> ELSE <<>>)
         \o Stringify(elems[i], TRUE) \o StringifyElems(elems, i + 1)

\* a member whose value is undefined is left out of the text
StringifyMembers(members, i, first) ==
  IF i > Len(members) THEN <<>>
  ELSE IF members[i].kids[1].t = "undefined"
       THEN StringifyMembers(members, i + 1, first)
       ELSE (IF first THEN <<>> ELSE <<Tok("punct", ",")>>)
              \o <<Tok("str", members[i].s), Tok("punct", ":")>>
              \o Stringify(members[i].kids[1], FALSE)
              \o StringifyMembers(members, i + 1, FALSE)

RECURSIVE ParseValue(_, _)
RECURSIVE ParseElems(_, _, _)
RECURSIVE ParseMembers(_, _, _)
\* JSON.parse from token i: the value read and the index after it
ParseValue(toks, i) ==
  LET tk == toks[i] IN
  CASE tk.k = "str" -> [val |-> Str(tk.s), next |-> i + 1]
    [] tk.k = "num" -> [val |-> Num(tk.s), next |-> i + 1]
    [] tk.k = "lit" -> [val |-> JNull, next |-> i + 1]
    [] tk.k = "punct" /\ tk.s = "[" -> ParseElems(toks, i + 1, <<>>)
    [] tk.k = "punct" /\ tk.s = "{" -> ParseMembers(toks, i + 1, <<>>)
    [] OTHER -> [val |-> Undefined, next |-> i + 1]

ParseElems(toks, i, acc) ==
  IF toks[i] = Tok("punct", "]") THEN [val |-> Arr(acc), next |-> i + 1]
  ELSE IF toks[i] = Tok("punct", ",") THEN ParseElems(toks, i + 1, acc)
  ELSE LET r == ParseValue(toks, i) IN ParseElems(toks, r.next, Append(acc, r.val))

ParseMembers(toks, i, acc) ==
  IF toks[i] = Tok("punct", "}") THEN [val |-> Obj(acc), next |-> i + 1]
  ELSE IF toks[i] = Tok("punct", ",") THEN ParseMembers(toks, i + 1, acc)
  ELSE LET r == ParseValue(toks, i + 2) IN
       ParseMembers(toks, r.next, Append(acc, Member(toks[i].s, r.val)))

JSONparse(toks) == ParseValue(toks, 1).val

\* ------------------------------------------------------------------- state
VARIABLES
  options,       \* the prefix option the constructor was given (optional string)
  prefix,        \* this.prefix
  targetRoom,    \* this.targetRoom (optional string)
  call,          \* per caller: the call it has suspended at the store, if any
  members,       \* the store's client-membership sets, by key
  out,           \* what the last step did, as its caller, the store and the
                 \* logger observe it
  chain,         \* rooms of the to calls made since the last emit activity
  returnsSinceTo, \* emit calls that have returned since the last to (0, 1, many)
  publishesSinceTo, \* publishes issued since the last to (0, 1, many)
  lastTo,        \* the room of the latest to call made on the instance, if any
  intent,        \* per caller of a to ... emit pair: the room of its own to
  pending,       \* the callers that have made the to of a pair and not its emit
  seen           \* the race outcomes met so far by emits of pairs

vars == <<options, prefix, targetRoom, call, members, out, chain, returnsSinceTo,
          publishesSinceTo, lastTo, intent, pending, seen>>

\* the bookkeeping of callers that work in to ... emit pairs
pairVars == <<intent, pending, seen>>

\* a test that takes only null for missing
Falsy_NullOnly(x) == x = Null

\* `!x` of an optional string: null and "" are both falsy
Falsy(x) == x = Null \/ x = Some("")

\* options.prefix || "io"
DefaultedPrefix(opt) == IF Falsy(opt) THEN "io" ELSE opt[1]

\* a key built without the separator
formatRoomName_NoSeparator(room) == prefix \o room

\* `${this.prefix}:${room}`
formatRoomName(room) == prefix \o ":" \o room

\* a query of the room's own key
clientsKey_NoSuffix(roomName) == roomName

\* `${roomName}:clients`
clientsKey(roomName) == roomName \o ":clients"

\* a frame with the data first
Frame_DataFirst(event, data) == Arr(<<data, Str(event)>>)

\* [event, data]
Frame(event, data) == Arr(<<Str(event), data>>)

\* redis.smembers(key): the members of the set, none for a key never written
SMembers(key) == IF key \in DOMAIN members THEN members[key] ELSE <<>>

\* the sets the transport layer has written to the store
StoredMembers ==
  [k \in {"io:lobby:clients", "io:den:clients", "io::clients",
          "app:lobby:clients", ":lobby:clients"} |->
     CASE k = "io:lobby:clients" -> <<"c1", "c2">>
       [] k = "io:den:clients" -> <<"c2">>
       [] k = "io::clients" -> <<"c5">>
       [] k = "app:lobby:clients" -> <<"c3">>
       [] OTHER -> <<"c4">>]

\* a caller with no call suspended; otherwise the locals of the suspended call
Idle == [room |-> "", roomName |-> "", event |-> "", data |-> Undefined,
         pc |-> "idle", payload |-> <<>>]

\* logger.warn / logger.success / logger.error
Diag(level, text, room, frame, cause) ==
  [room |-> room, level |-> level, text |-> text, frame |-> frame, cause |-> cause]

\* a step's observation: the operation and its arguments, whether it ran from
\* the call or from the await, what it returned or raised, the requests it
\* sent to the store, the settlement it resumed with, what it logged, and for
\* the call of emit the run of to calls that preceded it
NoOut == [room |-> "", event |-> "", data |-> Undefined,
          op |-> "construct", phase |-> "call", caller |-> 0,
          ret |-> "returned", err |-> "", clients |-> <<>>,
          published |-> <<>>, queried |-> <<>>, settled |-> "", diags |-> <<>>,
          tos |-> <<>>]

\* constructor
Init ==
  /\ options \in PrefixOptions
  /\ prefix = DefaultedPrefix(options)
  /\ targetRoom = Null
  /\ call = [c \in Callers |-> Idle]
  /\ members = StoredMembers
  /\ out = NoOut
  /\ chain = <<>>
  /\ returnsSinceTo = 0
  /\ publishesSinceTo = 0
  /\ lastTo = Null
  /\ intent = [c \in Callers |-> Null]
  /\ pending = {}
  /\ seen = {}

\* the last two rooms of a run of to calls
Last2(s) == IF Len(s) > 2 THEN SubSeq(s, Len(s) - 1, Len(s)) ELSE s

\* one more emit has returned
Returned(n) == IF n = 0 THEN 1 ELSE 2

\* k more publishes have been issued (k is 0 or 1)
Published(n, k) == IF k = 0 THEN n ELSE IF n = 0 THEN 1 ELSE 2

\* ------------------------------------------------------------------- to
\* a to that leaves a target already set in place
ToTarget_FirstWins(room) == IF targetRoom = Null THEN Some(room) ELSE targetRoom

\* this.targetRoom = room
ToTarget(room) == Some(room)

To(c, room) ==
  /\ call[c].pc = "idle"
  /\ targetRoom' = ToTarget(room)
  /\ out' = [NoOut EXCEPT !.op = "to", !.caller = c, !.room = room,
               !.diags = IF Falsy(Some(room))
                         THEN <<Diag("warn", "Empty room name provided to IO.to()",
                                     Null, Undefined, "")>>
                         ELSE <<>>]
  /\ chain' = Last2(Append(chain, room))
  /\ returnsSinceTo' = 0
  /\ publishesSinceTo' = 0
  /\ lastTo' = Some(room)
  /\ UNCHANGED <<options, prefix, call, members>>

\* ------------------------------------------------------------------- emit
\* a finally block that leaves the field as it is
FinallyTarget_Kept == targetRoom

\* the assignment of the finally block
FinallyTarget == Null

\* a catch block that throws an error of its own
Rethrown_Replaced(error) == "Error"

\* the value thrown by `throw error` in the catch block
Rethrown(error) == error

\* an emit that treats the missing target as a failure to raise
EmitUntargeted_Throws(c, event, data) ==
  /\ out' = [NoOut EXCEPT !.op = "emit", !.caller = c, !.tos = chain,
               !.event = event, !.data = data, !.ret = "raised", !.err = "Error",
               !.diags = <<Diag("error", "Failed to emit event",
                                Null, Undefined, "Error")>>]
  /\ targetRoom' = Null
  /\ returnsSinceTo' = IF returnsSinceTo = 0 THEN 1 ELSE 2
  /\ UNCHANGED call

\* emit with no target: warn and return, through the finally block
EmitUntargeted(c, event, data) ==
  /\ out' = [NoOut EXCEPT !.op = "emit", !.caller = c, !.tos = chain, !.event = event,
               !.data = data,
               !.diags = <<Diag("warn",
                                "IO emit called without setting a target room first",
                                Null, Undefined, "")>>]
  /\ targetRoom' = FinallyTarget
  /\ returnsSinceTo' = Returned(returnsSinceTo)
  /\ UNCHANGED call

\* emit whose JSON.stringify raises: catch, log, rethrow, through finally
EmitStringifyFailed(c, event, data) ==
  /\ out' = [NoOut EXCEPT !.op = "emit", !.caller = c, !.tos = chain, !.event = event,
               !.data = data, !.ret = "raised", !.err = Rethrown(SerializeError),
               !.diags = <<Diag("error", "Failed to emit event",
                                Null, Undefined, SerializeError)>>]
  /\ targetRoom' = FinallyTarget
  /\ returnsSinceTo' = Returned(returnsSinceTo)
  /\ UNCHANGED call

\* emit that calls redis.publish and suspends at the await
EmitPublish(c, event, data) ==
  LET roomName == formatRoomName(targetRoom[1])
      payload == Stringify(Frame(event, data), FALSE)
  IN /\ call' = [call EXCEPT ![c] =
                   [room |-> "", roomName |-> roomName, event |-> event,
                    data |-> data, pc |-> "publish", payload |-> payload]]
     /\ out' = [NoOut EXCEPT !.op = "emit", !.caller = c, !.tos = chain, !.event = event,
                 !.data = data, !.ret = "none",
                 !.published = <<[key |-> roomName, message |-> payload]>>]
     /\ UNCHANGED <<targetRoom, returnsSinceTo>>

\* emit from the call up to its first await or its return
EmitCall(c, event, data) ==
  /\ call[c].pc = "idle"
  /\ IF Falsy(targetRoom) THEN EmitUntargeted(c, event, data)
     ELSE IF ~CanStringify(Frame(event, data)) THEN EmitStringifyFailed(c, event, data)
     ELSE EmitPublish(c, event, data)
  /\ chain' = <<>>
  /\ publishesSinceTo' = Published(publishesSinceTo, Len(out'.published))
  /\ UNCHANGED <<options, prefix, members, lastTo>>

\* an emit that sends the publish again when the store fails it
EmitResume_Retries(c, res) ==
  /\ call[c].pc = "publish"
  /\ IF res = "ok"
     THEN /\ out' = [NoOut EXCEPT !.op = "emit", !.phase = "resume", !.caller = c,
                      !.event = call[c].event, !.data = call[c].data,
                      !.settled = res,
                      !.diags = <<Diag("success", "IO emitted to room", targetRoom,
                                       Frame(call[c].event, call[c].data), "")>>]
          /\ targetRoom' = Null
          /\ call' = [call EXCEPT ![c] = Idle]
          /\ returnsSinceTo' = Returned(returnsSinceTo)
          /\ publishesSinceTo' = publishesSinceTo
     ELSE /\ out' = [NoOut EXCEPT !.op = "emit", !.phase = "resume", !.caller = c,
                      !.event = call[c].event, !.data = call[c].data,
                      !.ret = "none", !.settled = res,
                      !.published = <<[key |-> call[c].roomName,
                                       message |-> call[c].payload]>>]
          /\ publishesSinceTo' = Published(publishesSinceTo, 1)
          /\ UNCHANGED <<targetRoom, call, returnsSinceTo>>
  /\ chain' = <<>>
  /\ UNCHANGED <<options, prefix, members, lastTo>>

\* emit from its await: the store settled the publish with res
EmitResume(c, res) ==
  /\ call[c].pc = "publish"
  /\ IF res = "ok"
     THEN out' = [NoOut EXCEPT !.op = "emit", !.phase = "resume", !.caller = c,
                   !.event = call[c].event, !.data = call[c].data,
                   !.settled = res,
                   !.diags = <<Diag("success", "IO emitted to room", targetRoom,
                                    Frame(call[c].event, call[c].data), "")>>]
     ELSE out' = [NoOut EXCEPT !.op = "emit", !.phase = "resume", !.caller = c,
                   !.event = call[c].event, !.data = call[c].data,
                   !.settled = res, !.ret = "raised", !.err = Rethrown(res),
                   !.diags = <<Diag("error", "Failed to emit event",
                                    Null, Undefined, res)>>]
  /\ targetRoom' = FinallyTarget
  /\ call' = [call EXCEPT ![c] = Idle]
  /\ chain' = <<>>
  /\ returnsSinceTo' = Returned(returnsSinceTo)
  /\ UNCHANGED <<options, prefix, members, publishesSinceTo, lastTo>>

\* ------------------------------------------------------- getClientsInRoom
\* the value returned from the catch block
ClientsOnFailure == <<>>

\* a getClientsInRoom that goes through the target of the instance
GetClientsCall_Targets(c, room) ==
  /\ call[c].pc = "idle"
  /\ targetRoom' = Some(room)
  /\ call' = [call EXCEPT ![c] =
                [Idle EXCEPT !.pc = "smembers", !.room = room,
                             !.roomName = prefix \o ":" \o room]]
  /\ out' = [NoOut EXCEPT !.op = "getClientsInRoom", !.caller = c, !.room = room,
               !.ret = "none",
               !.queried = <<prefix \o ":" \o room \o ":clients">>]
  /\ UNCHANGED <<options, prefix, members, chain, returnsSinceTo,
               publishesSinceTo, lastTo>>

\* getClientsInRoom up to its await on redis.smembers
GetClientsCall(c, room) ==
  /\ call[c].pc = "idle"
  /\ call' = [call EXCEPT ![c] =
                [Idle EXCEPT !.pc = "smembers", !.room = room,
                             !.roomName = formatRoomName(room)]]
  /\ out' = [NoOut EXCEPT !.op = "getClientsInRoom", !.caller = c, !.room = room,
               !.ret = "none",
               !.queried = <<clientsKey(formatRoomName(room))>>]
  /\ UNCHANGED <<options, prefix, targetRoom, members, chain, returnsSinceTo,
               publishesSinceTo, lastTo>>

\* a getClientsInRoom that rethrows the failure of the query
GetClientsResume_Rethrows(c, res) ==
  /\ call[c].pc = "smembers"
  /\ IF res = "ok"
     THEN out' = [NoOut EXCEPT !.op = "getClientsInRoom", !.phase = "resume",
                   !.caller = c, !.room = call[c].room, !.settled = res,
                   !.clients = SMembers(call[c].roomName \o ":clients")]
     ELSE out' = [NoOut EXCEPT !.op = "getClientsInRoom", !.phase = "resume",
                   !.caller = c, !.room = call[c].room, !.settled = res,
                   !.ret = "raised", !.err = res,
                   !.diags = <<Diag("error", "Failed to get clients in room",
                                    Some(call[c].room), Undefined, res)>>]
  /\ call' = [call EXCEPT ![c] = Idle]
  /\ UNCHANGED <<options, prefix, targetRoom, members, chain, returnsSinceTo,
               publishesSinceTo, lastTo>>

\* getClientsInRoom from its await: the store settled the query with res
GetClientsResume(c, res) ==
  /\ call[c].pc = "smembers"
  /\ IF res = "ok"
     THEN out' = [NoOut EXCEPT !.op = "getClientsInRoom", !.phase = "resume",
                   !.caller = c, !.room = call[c].room, !.settled = res,
                   !.clients = SMembers(clientsKey(call[c].roomName))]
     ELSE out' = [NoOut EXCEPT !.op = "getClientsInRoom", !.phase = "resume",
                   !.caller = c, !.room = call[c].room, !.settled = res,
                   !.clients = ClientsOnFailure,
                   !.diags = <<Diag("error", "Failed to get clients in room",
                                    Some(call[c].room), Undefined, res)>>]
  /\ call' = [call EXCEPT ![c] = Idle]
  /\ UNCHANGED <<options, prefix, targetRoom, members, chain, returnsSinceTo,
               publishesSinceTo, lastTo>>

\* ------------------------------------------------------------------ close
\* a close that also drops the pending target
Close_DropsTarget(c) ==
  /\ call[c].pc = "idle"
  /\ out' = [NoOut EXCEPT !.op = "close", !.caller = c]
  /\ targetRoom' = Null
  /\ UNCHANGED <<options, prefix, call, members, chain, returnsSinceTo,
               publishesSinceTo, lastTo>>

\* close: the try block is empty, so the call returns at once
Close(c) ==
  /\ call[c].pc = "idle"
  /\ out' = [NoOut EXCEPT !.op = "close", !.caller = c]
  /\ UNCHANGED <<options, prefix, targetRoom, call, members, chain, returnsSinceTo,
               publishesSinceTo, lastTo>>

\* ------------------------------------------------------------ specification
StoreResults == {"ok"} \cup StoreErrors

\* any caller makes any call at any time
Next ==
  \/ \E c \in Callers, room \in Rooms : To(c, room) /\ UNCHANGED pairVars
  \/ \E c \in Callers, event \in Events, data \in Payloads :
       EmitCall(c, event, data) /\ UNCHANGED pairVars
  \/ \E c \in Callers, res \in StoreResults : EmitResume(c, res) /\ UNCHANGED pairVars
  \/ \E c \in Callers, room \in Rooms : GetClientsCall(c, room) /\ UNCHANGED pairVars
  \/ \E c \in Callers, res \in StoreResults :
       GetClientsResume(c, res) /\ UNCHANGED pairVars
  \/ \E c \in Callers : Close(c) /\ UNCHANGED pairVars

Spec == Init /\ [][Next]_vars

TypeOK ==
  /\ options \in PrefixOptions
  /\ prefix \in {"io", "app"}
  /\ targetRoom \in {Null} \cup {Some(r) : r \in Rooms}
  /\ \A c \in Callers : call[c].pc \in {"idle", "publish", "smembers"}
  /\ out.ret \in {"none", "returned", "raised"}
  /\ returnsSinceTo \in 0..2
  /\ publishesSinceTo \in 0..2
  /\ lastTo \in {Null} \cup {Some(r) : r \in Rooms}
  /\ (targetRoom # Null => targetRoom = lastTo)
  /\ (chain # <<>> => targetRoom = Some(chain[Len(chain)]))

\* ------------------------------------------------------- reading a step
\* the step was an emit that gave control back to its caller
EmitReturned(o) == o.op = "emit" /\ o.ret # "none"

\* the step was the call of emit (not its resumption)
EmitCalled(o) == o.op = "emit" /\ o.phase = "call"

\* the step was the resumption of an emit whose publish the store failed
EmitPublishFailed(o) ==
  o.op = "emit" /\ o.phase = "resume" /\ o.settled \in StoreErrors

\* the prefix the relay works with, read off the constructor's argument
EffectivePrefix == IF options = Null \/ options = Some("") THEN "io" ELSE options[1]

\* the one warning of an untargeted emit
UntargetedWarning(ds) ==
  /\ Len(ds) = 1
  /\ ds[1].level = "warn"
  /\ ds[1].text = "IO emit called without setting a target room first"

\* ------------------------------------------------------------------ claims
\* C1: whenever an emit gives control back to its caller (returning after a
\* successful publish, returning as the untargeted no-op, or raising), the
\* target room is unset at that moment; and an emit called after an emit has
\* returned, with no to in between, sends no publish to the store.
C1_EmitLeavesUntargeted ==
  [][ /\ (EmitReturned(out') => targetRoom' = Null)
      /\ (returnsSinceTo > 0 /\ EmitCalled(out') => out'.published = <<>>)
    ]_vars

\* an emit was called after another emit had returned, with no to in between
C1_Witness ==
  /\ EmitCalled(out)
  /\ out.ret = "returned"
  /\ returnsSinceTo = 2
  /\ targetRoom = Null

\* C2: when the store fails the publish of an emit, the emit raises that very
\* failure to its caller and the target room is unset afterwards, so that an
\* emit called next, without a new to, publishes nothing.
C2_PublishFailureRaised ==
  [][ /\ (EmitPublishFailed(out') =>
            /\ out'.ret = "raised"
            /\ out'.err = out'.settled
            /\ targetRoom' = Null)
      /\ (EmitPublishFailed(out) /\ EmitCalled(out') =>
            /\ out'.published = <<>>
            /\ out'.ret = "returned")
    ]_vars

\* an emit has just raised the store's authentication failure
C2_Witness ==
  /\ EmitPublishFailed(out)
  /\ out.settled = "EAUTH"
  /\ out.err = "EAUTH"
  /\ out.ret = "raised"

\* C3: an emit called while no target room is set (after construction, or
\* after an earlier emit has completed) sends no publish, signals the one
\* warning, returns without raising and leaves the relay untargeted.
C3_UntargetedEmitIsNoOp ==
  [][ targetRoom = Null /\ EmitCalled(out') =>
        /\ out'.published = <<>>
        /\ UntargetedWarning(out'.diags)
        /\ out'.ret = "returned"
        /\ targetRoom' = Null
        /\ call' = call
    ]_vars

\* an emit returned as the warned no-op, called after an earlier emit returned
C3_Witness ==
  /\ EmitCalled(out)
  /\ UntargetedWarning(out.diags)
  /\ out.published = <<>>
  /\ returnsSinceTo = 2

\* the step was the call of emit straight after a run of two to calls
AfterTwoTos(o) == EmitCalled(o) /\ Len(o.tos) = 2

\* the step was the call of emit straight after a to call (or a run of them)
AfterTo(o) == EmitCalled(o) /\ Len(o.tos) > 0

\* the room of the last to call of the run before the emit
LastTo(o) == o.tos[Len(o.tos)]

\* the step sent the store exactly one publish request, and to this key
PublishedOnceTo(o, key) == Len(o.published) = 1 /\ o.published[1].key = key

\* C4 as stated: for any rooms r1 and r2, to(r1), to(r2), emit(e, d) with no
\* emit in between publishes exactly once to the key of r2 and never to the
\* key of r1.
C4_Original ==
  AfterTwoTos(out) =>
    /\ PublishedOnceTo(out, prefix \o ":" \o out.tos[2])
    /\ (out.tos[1] # out.tos[2] =>
          \A i \in 1..Len(out.published) :
            out.published[i].key # prefix \o ":" \o out.tos[1])

\* C4 as amended: for any room r1 and any non-empty room r2, to(r1), to(r2),
\* emit(e, d) with no emit in between publishes exactly once to the key of r2
\* when JSON.stringify accepts [e, d]; with r2 empty, or a frame it rejects,
\* the emit publishes nothing; in no case does it publish to the key of an r1
\* different from r2.
C4_LastToWins ==
  AfterTwoTos(out) =>
    /\ (IF out.tos[2] # "" /\ CanStringify(Frame(out.event, out.data))
        THEN PublishedOnceTo(out, prefix \o ":" \o out.tos[2])
        ELSE out.published = <<>>)
    /\ (out.tos[1] # out.tos[2] =>
          \A i \in 1..Len(out.published) :
            out.published[i].key # prefix \o ":" \o out.tos[1])

\* to("lobby"), to("den"), emit has published to the key of den
C4_Witness ==
  /\ AfterTwoTos(out)
  /\ out.tos = <<"lobby", "den">>
  /\ Len(out.published) = 1
  /\ out.published[1].key = prefix \o ":den"

\* C5 as stated: for every room r and every prefix p given as the prefix
\* option, emit publishes to p:r and getClientsInRoom queries p:r:clients; "io"
\* is the prefix only when no prefix option is given.
C5_Original ==
  /\ (options # Null /\ AfterTo(out) =>
        PublishedOnceTo(out, options[1] \o ":" \o LastTo(out)))
  /\ (options # Null /\ out.op = "getClientsInRoom" /\ out.phase = "call" =>
        out.queried = <<options[1] \o ":" \o out.room \o ":clients">>)

\* C5 as amended: for every non-empty prefix p given as the prefix option,
\* emit publishes to p:r for every non-empty targeted room r (when
\* JSON.stringify accepts the frame) and getClientsInRoom queries p:r:clients
\* for every room r; "io" takes the place of p when no prefix option is given
\* and also when the option is the empty string.
C5_KeysDerivedFromPrefix ==
  [][ /\ (EmitCalled(out') /\ ~Falsy(targetRoom)
            /\ CanStringify(Frame(out'.event, out'.data)) =>
            PublishedOnceTo(out', EffectivePrefix \o ":" \o targetRoom[1]))
      /\ (out'.op = "getClientsInRoom" /\ out'.phase = "call" =>
            out'.queried = <<EffectivePrefix \o ":" \o out'.room \o ":clients">>)
    ]_vars

\* a relay constructed with prefix "app" has published to app:lobby
C5_Witness ==
  /\ options = Some("app")
  /\ AfterTo(out)
  /\ LastTo(out) = "lobby"
  /\ Len(out.published) = 1
  /\ out.published[1].key = "app:lobby"

RECURSIVE JsonFaithful(_)
\* the value holds nothing that JSON text cannot carry (undefined, NaN)
JsonFaithful(v) ==
  /\ v.t # "undefined"
  /\ ~(v.t = "number" /\ v.s = "NaN")
  /\ \A i \in 1..Len(v.kids) : JsonFaithful(v.kids[i])

ClientsDelivered(o) == o.op = "getClientsInRoom" /\ o.phase = "resume"

\* C7: getClientsInRoom(room) never raises: when the store's set-members
\* query succeeds it returns exactly the sequence the store holds for the key
\* prefix:room:clients, and when the query fails it returns the empty sequence.
C7_ClientsOrEmpty ==
  /\ (out.op = "getClientsInRoom" => out.ret # "raised")
  /\ (ClientsDelivered(out) =>
        /\ out.ret = "returned"
        /\ (out.settled = "ok" =>
              out.clients = SMembers(prefix \o ":" \o out.room \o ":clients"))
        /\ (out.settled # "ok" => out.clients = <<>>))

\* getClientsInRoom("lobby") on the relay with prefix "io" returned c1, c2
C7_Witness ==
  /\ ClientsDelivered(out)
  /\ prefix = "io"
  /\ out.room = "lobby"
  /\ out.settled = "ok"
  /\ out.clients = <<"c1", "c2">>

\* the query of a room failed and the call returned the empty sequence
C7_FailureWitness ==
  /\ ClientsDelivered(out)
  /\ out.room = "lobby"
  /\ out.settled \in StoreErrors
  /\ out.clients = <<>>
  /\ out.ret = "returned"

\* C8: getClientsInRoom neither reads nor changes the target room, and no
\* relay operation writes to a membership set: the sets of the store are the
\* same after every step, a step of getClientsInRoom leaves the target as it
\* was, what it asks the store and what it returns depend on its argument
\* only, and an emit called straight after a getClientsInRoom step that
\* followed a to(r) still publishes to r (r non-empty, frame serialisable).
C8_MembershipReadOnly ==
  [][ /\ members' = members
      /\ (out'.op = "getClientsInRoom" =>
            /\ targetRoom' = targetRoom
            /\ chain' = chain
            /\ (out'.phase = "call" =>
                  out'.queried = <<prefix \o ":" \o out'.room \o ":clients">>))
      /\ (out.op = "getClientsInRoom" /\ chain # <<>> /\ chain[Len(chain)] # ""
            /\ EmitCalled(out') /\ CanStringify(Frame(out'.event, out'.data)) =>
            PublishedOnceTo(out', prefix \o ":" \o chain[Len(chain)]))
    ]_vars

\* a getClientsInRoom("den") has completed between to("lobby") and the emit
C8_Witness ==
  /\ ClientsDelivered(out)
  /\ out.room = "den"
  /\ chain = <<"lobby">>
  /\ targetRoom = Some("lobby")
  /\ members = StoredMembers

\* C9: close never raises, changes nothing (so that calling it again is the
\* same as calling it once), and leaves the target room and the store as they
\* were: an emit called straight after a close that followed a to(r) still
\* publishes to r, and after a close every caller that could call an
\* operation before it still can.
C9_CloseChangesNothing ==
  [][ /\ (out'.op = "close" =>
            /\ out'.ret = "returned"
            /\ out'.diags = <<>>
            /\ UNCHANGED <<options, prefix, targetRoom, call, members>>)
      /\ (out.op = "close" /\ out'.op = "close" =>
            UNCHANGED <<options, prefix, targetRoom, call, members, chain>>)
      /\ (out.op = "close" /\ chain # <<>> /\ chain[Len(chain)] # ""
            /\ EmitCalled(out') /\ CanStringify(Frame(out'.event, out'.data)) =>
            PublishedOnceTo(out', prefix \o ":" \o chain[Len(chain)]))
    ]_vars

\* a close has returned between to("lobby") and the emit
C9_Witness ==
  /\ out.op = "close"
  /\ out.ret = "returned"
  /\ chain = <<"lobby">>
  /\ targetRoom = Some("lobby")

\* C10: the only call that can raise to its caller is an emit whose
\* serialisation or publish failed; to (also with an empty room), emit on an
\* untargeted relay, getClientsInRoom and close always complete without
\* raising.
C10_OnlyEmitRaises ==
  [][ /\ (out'.ret = "raised" =>
            /\ out'.op = "emit"
            /\ \/ out'.phase = "call" /\ out'.err = SerializeError
                  /\ ~CanStringify(Frame(out'.event, out'.data))
               \/ out'.phase = "resume" /\ out'.settled \in StoreErrors
                  /\ out'.err = out'.settled)
      /\ (out'.op \in {"to", "close"} => out'.ret = "returned")
      /\ (out'.op = "getClientsInRoom" => out'.ret # "raised")
      /\ (EmitCalled(out') /\ Falsy(targetRoom) => out'.ret = "returned")
    ]_vars

\* an emit has raised the failure of JSON.stringify
C10_Witness ==
  /\ out.op = "emit"
  /\ out.ret = "raised"
  /\ out.err = SerializeError
  /\ out.published = <<>>

\* the one warning of a to given the empty room
EmptyRoomWarning(ds) ==
  /\ Len(ds) = 1
  /\ ds[1].level = "warn"
  /\ ds[1].text = "Empty room name provided to IO.to()"

\* C11 as stated: after to(""), an emit of a frame that serialises publishes
\* that frame once, to the key made of the prefix and ":" alone.
C11_Original ==
  AfterTo(out) /\ LastTo(out) = "" /\ CanStringify(Frame(out.event, out.data))
    => PublishedOnceTo(out, prefix \o ":")

\* C11: to("") logs the empty-room warning and stores the empty string as the
\* target; an emit called while the target is the empty string takes it for a
\* missing target: it logs the untargeted warning, sends nothing to the
\* store, returns without raising and leaves the target unset.
C11_EmptyTargetIsNoTarget ==
  [][ /\ (out'.op = "to" /\ out'.room = "" =>
            /\ targetRoom' = Some("")
            /\ EmptyRoomWarning(out'.diags))
      /\ (targetRoom = Some("") /\ EmitCalled(out') =>
            /\ out'.published = <<>>
            /\ UntargetedWarning(out'.diags)
            /\ out'.ret = "returned"
            /\ targetRoom' = Null)
    ]_vars

\* an emit of a frame that serialises was called right after to("") and
\* returned with nothing published
C11_Witness ==
  /\ AfterTo(out)
  /\ LastTo(out) = ""
  /\ CanStringify(Frame(out.event, out.data))
  /\ out.published = <<>>
  /\ out.ret = "returned"
  /\ UntargetedWarning(out.diags)

\* some emit is suspended at its publish
EmitSuspended == \E c \in Callers : call[c].pc = "publish"

\* C12: in every sequence of calls on one instance, emits called while an
\* earlier emit is suspended at its publish included, at most one publish is
\* issued per to call: two publishes are separated by a to.
C12_Original == publishesSinceTo <= 1

\* caller c's emit starts in this step and hands a publish to the store
EmitBegins(c) == call[c].pc = "idle" /\ call'[c].pc = "publish"

\* C13: the destination of an emit is fixed when the emit begins: the key it
\* hands to the store is the one derived from the room of the latest to made
\* before it began, and while it is suspended at the publish neither a to nor
\* the cleanup of another emit changes the key or the frame of its request,
\* and the emit sends no second request.
C13_DestinationFixedAtStart ==
  [][ \A c \in Callers :
        /\ (EmitBegins(c) =>
              /\ lastTo # Null
              /\ call'[c].roomName = prefix \o ":" \o lastTo[1]
              /\ out'.published =
                   <<[key |-> prefix \o ":" \o lastTo[1], message |-> call'[c].payload]>>)
        /\ (call[c].pc = "publish" /\ call'[c].pc = "publish" =>
              /\ call'[c].roomName = call[c].roomName
              /\ call'[c].payload = call[c].payload)
        /\ (call[c].pc = "publish" /\ out'.caller = c => out'.published = <<>>)
    ]_vars

\* an emit is suspended with its request addressed to io:lobby, and a to of
\* another caller has just moved the target to den
C13_Witness ==
  /\ out.op = "to"
  /\ targetRoom = Some("den")
  /\ \E c \in Callers :
       /\ call[c].pc = "publish"
       /\ call[c].roomName = "io:lobby"
       /\ out.caller # c

\* ------------------------------------------------- callers working in pairs
\* the data of the emits of pairs: one frame that serialises, one that does not
PairPayloads == {BigIntV("1"), Obj(<<Member("msg", Str("hi"))>>)}

\* an emit of caller c's pair went to the key of another caller's room
Redirected(c, o) ==
  /\ o.published # <<>>
  /\ o.published[1].key # formatRoomName(intent[c][1])
  /\ \E d \in Callers \ {c} :
       intent[d] # Null /\ o.published[1].key = formatRoomName(intent[d][1])

\* an emit of caller c's pair, for a room and a frame that would publish,
\* found the target cleared and published nothing
Dropped(c, o) ==
  /\ o.published = <<>>
  /\ ~Falsy(intent[c])
  /\ CanStringify(Frame(o.event, o.data))
  /\ targetRoom = Null

\* the to of caller c's pair
PairTo(c, room) ==
  /\ c \notin pending
  /\ To(c, room)
  /\ intent' = [intent EXCEPT ![c] = Some(room)]
  /\ pending' = pending \cup {c}
  /\ seen' = seen

\* the emit of caller c's pair, up to its await or its return
PairEmit(c, event, data) ==
  /\ c \in pending
  /\ EmitCall(c, event, data)
  /\ pending' = pending \ {c}
  /\ seen' = seen \cup (IF Redirected(c, out') THEN {"redirected"} ELSE {})
                  \cup (IF Dropped(c, out') THEN {"dropped"} ELSE {})
  /\ intent' = intent

\* two or more callers each run to(room) then emit(event, data), the two
\* calls of a pair being separate steps
NextPairs ==
  \/ \E c \in Callers, room \in Rooms : PairTo(c, room)
  \/ \E c \in Callers, event \in Events, data \in PairPayloads : PairEmit(c, event, data)
  \/ \E c \in Callers, res \in StoreResults : EmitResume(c, res) /\ UNCHANGED pairVars

SpecPairs == Init /\ [][NextPairs]_vars

\* C14: when callers run their own to ... emit pairs as separate steps on one
\* instance, an emit of a pair publishes to the room of the latest to on the
\* instance, whoever made it, and publishes nothing when the target has been
\* cleared since its own to; both bad outcomes occur: an emit published to
\* the other caller's room, and an emit for a non-empty room and a frame that
\* serialises silently published nothing (see C14_Witness).
C14_PairsRace ==
  [][ \A c \in pending :
        EmitCalled(out') /\ out'.caller = c =>
          /\ (out'.published # <<>> =>
                /\ out'.published[1].key = prefix \o ":" \o lastTo[1]
                /\ (lastTo # intent[c] => \E d \in Callers \ {c} : intent[d] = lastTo))
          /\ (Dropped(c, out') =>
                /\ UntargetedWarning(out'.diags)
                /\ out'.ret = "returned")
          /\ (seen' # seen => Redirected(c, out') \/ Dropped(c, out'))
    ]_vars

\* one emit of a pair has gone to the other caller's room and one has been
\* dropped after the cleanup of another emit cleared its target
C14_Witness == seen = {"redirected", "dropped"}

\* the step resumes caller c's emit after a publish that succeeded
EmitSucceeds(c) ==
  /\ call[c].pc = "publish"
  /\ out'.op = "emit" /\ out'.phase = "resume" /\ out'.caller = c
  /\ out'.settled = "ok"

\* C15: whenever the publish of an emit succeeds, the success diagnostic the
\* emit signals names the room whose key the frame was published to, and
\* carries the frame [event, data], whatever to calls and other emits ran
\* while the emit was suspended.
C15_Original ==
  [][ \A c \in Callers :
        EmitSucceeds(c) =>
          /\ Len(out'.diags) = 1
          /\ out'.diags[1].level = "success"
          /\ out'.diags[1].frame = Frame(call[c].event, call[c].data)
          /\ out'.diags[1].room # Null
          /\ formatRoomName(out'.diags[1].room[1]) = call[c].roomName
    ]_vars

\* C16: every emit call signals exactly one diagnostic, matching its outcome:
\* none while it is suspended at the publish and one when it gives control
\* back; the untargeted warning, with nothing published, when it had no
\* target; a success diagnostic after a publish that succeeded; an error
\* diagnostic carrying the failure that is raised, after a publish (or a
\* serialisation) that failed. An emit that raises signals no success and an
\* emit that had no target signals no error.
C16_OneDiagnosticPerEmit ==
  [][ out'.op = "emit" =>
        /\ (out'.ret = "none" =>
              out'.phase = "call" /\ out'.diags = <<>> /\ Len(out'.published) = 1)
        /\ (out'.ret # "none" => Len(out'.diags) = 1)
        /\ (EmitCalled(out') /\ Falsy(targetRoom) =>
              /\ UntargetedWarning(out'.diags)
              /\ out'.published = <<>>
              /\ out'.ret = "returned")
        /\ (out'.phase = "resume" /\ out'.settled = "ok" =>
              out'.diags[1].level = "success" /\ out'.ret = "returned")
        /\ (out'.phase = "resume" /\ out'.settled # "ok" =>
              /\ out'.settled \in StoreErrors
              /\ out'.diags[1].level = "error"
              /\ out'.diags[1].cause = out'.settled
              /\ out'.ret = "raised"
              /\ out'.err = out'.settled)
        /\ (out'.ret = "raised" =>
              out'.diags[1].level = "error" /\ out'.diags[1].cause = out'.err)
    ]_vars

\* an emit has just raised the store's network failure after logging it
C16_Witness ==
  /\ out.op = "emit"
  /\ out.phase = "resume"
  /\ out.settled = "ENETWORK"
  /\ out.ret = "raised"
  /\ Len(out.diags) = 1
  /\ out.diags[1].level = "error"
  /\ out.diags[1].cause = "ENETWORK"

\* C17 as stated: an emit call publishes exactly once when a non-empty target
\* is set at its start and not at all otherwise.
C17_Original ==
  [][ EmitCalled(out') =>
        Len(out'.published) = IF Falsy(targetRoom) THEN 0 ELSE 1
    ]_vars

\* C17: the relay adds no retry and no duplicate. A step sends at most as many
\* publishes as it makes emit calls: only the call of an emit publishes, once
\* when a non-empty target is set at its start and the frame serialises and
\* not at all otherwise; the resumption of an emit, failed publish included,
\* publishes nothing and ends the call. Summed over the steps of a run, the
\* publishes the store receives never exceed the emit calls made.
C17_NoRetryNoDuplicate ==
  [][ /\ Len(out'.published) <= (IF EmitCalled(out') THEN 1 ELSE 0)
      /\ (EmitCalled(out') =>
            Len(out'.published) =
              IF ~Falsy(targetRoom) /\ CanStringify(Frame(out'.event, out'.data))
              THEN 1 ELSE 0)
      /\ (EmitPublishFailed(out') =>
            /\ out'.published = <<>>
            /\ out'.ret = "raised"
            /\ call'[out'.caller].pc = "idle")
    ]_vars

\* an emit called right after to("lobby") with data that JSON.stringify
\* rejects raised without a publish
C17_Witness ==
  /\ AfterTo(out)
  /\ LastTo(out) = "lobby"
  /\ ~CanStringify(Frame(out.event, out.data))
  /\ out.published = <<>>
  /\ out.ret = "raised"
  /\ out.err = SerializeError

\* ------------------------------------------- callers using the fluent chain
\* to(room).emit(event, data) as one expression: to runs, returns this, and
\* emit runs on it up to its await or its return, with nothing in between
Fluent(c, room, event, data) ==
  LET target == ToTarget(room)
      warned == IF Falsy(Some(room))
                THEN <<Diag("warn", "Empty room name provided to IO.to()",
                            Null, Undefined, "")>>
                ELSE <<>>
      sent == [NoOut EXCEPT !.op = "emit", !.caller = c, !.event = event,
                 !.data = data, !.tos = Last2(Append(chain, room))]
  IN /\ call[c].pc = "idle"
     /\ IF Falsy(target)
        THEN /\ out' = [sent EXCEPT
                          !.diags = Append(warned,
                            Diag("warn",
                                 "IO emit called without setting a target room first",
                                 Null, Undefined, ""))]
             /\ targetRoom' = FinallyTarget
             /\ returnsSinceTo' = Returned(0)
             /\ publishesSinceTo' = 0
             /\ UNCHANGED call
        ELSE IF ~CanStringify(Frame(event, data))
        THEN /\ out' = [sent EXCEPT
                          !.ret = "raised", !.err = Rethrown(SerializeError),
                          !.diags = Append(warned,
                            Diag("error", "Failed to emit event",
                                 Null, Undefined, SerializeError))]
             /\ targetRoom' = FinallyTarget
             /\ returnsSinceTo' = Returned(0)
             /\ publishesSinceTo' = 0
             /\ UNCHANGED call
        ELSE LET roomName == formatRoomName(target[1])
                 payload == Stringify(Frame(event, data), FALSE)
             IN /\ call' = [call EXCEPT ![c] =
                              [room |-> "", roomName |-> roomName, event |-> event,
                               data |-> data, pc |-> "publish", payload |-> payload]]
                /\ out' = [sent EXCEPT
                             !.ret = "none",
                             !.published = <<[key |-> roomName, message |-> payload]>>,
                             !.diags = warned]
                /\ targetRoom' = target
                /\ returnsSinceTo' = 0
                /\ publishesSinceTo' = Published(0, 1)
     /\ chain' = <<>>
     /\ lastTo' = Some(room)
     /\ UNCHANGED <<options, prefix, members>>

\* every caller sends with the fluent chain, and the store settles the
\* publishes in any order
NextFluent ==
  \/ \E c \in Callers, room \in Rooms, event \in Events, data \in Payloads :
       Fluent(c, room, event, data) /\ UNCHANGED pairVars
  \/ \E c \in Callers, res \in StoreResults : EmitResume(c, res) /\ UNCHANGED pairVars

SpecFluent == Init /\ [][NextFluent]_vars

\* C18 as stated: with every send a fluent chain to(r).emit(e, d), every emit
\* publishes once, to the key of its own room r.
C18_Original ==
  EmitCalled(out) => PublishedOnceTo(out, prefix \o ":" \o LastTo(out))

\* C18: with every send a fluent chain to(r).emit(e, d), however many emits
\* are suspended at the store, an emit for a non-empty room r and a frame
\* that serialises publishes that frame once to the key of r; no emit
\* publishes to the key of another room; the emit for the empty room, or of
\* a frame that does not serialise, publishes nothing.
C18_FluentIsolated ==
  EmitCalled(out) =>
    LET r == LastTo(out)
        frame == Frame(out.event, out.data)
    IN /\ (r # "" /\ CanStringify(frame) =>
             out.published = <<[key |-> prefix \o ":" \o r,
                                message |-> Stringify(frame, FALSE)]>>)
       /\ (r = "" \/ ~CanStringify(frame) => out.published = <<>>)
       /\ (out.ret = "none" => call[out.caller].roomName = prefix \o ":" \o r)

\* caller 2's chain for den has just published to the key of den while
\* caller 1's emit for lobby is still suspended at the store
C18_Witness ==
  /\ EmitCalled(out)
  /\ out.caller = 2
  /\ LastTo(out) = "den"
  /\ Len(out.published) = 1
  /\ out.published[1].key = prefix \o ":den"
  /\ call[1].pc = "publish"
  /\ call[1].roomName = prefix \o ":lobby"

\* ----------------------------------------------------- the store settles
\* every publish handed to the store is settled, with success or a failure,
\* and the emit that awaits it is resumed
Settle(c) == \E res \in StoreResults : EmitResume(c, res) /\ UNCHANGED pairVars

\* the calls that read or write the target, made by any caller at any time
NextEmits ==
  \/ \E c \in Callers, room \in Rooms : To(c, room) /\ UNCHANGED pairVars
  \/ \E c \in Callers, event \in Events, data \in Payloads :
       EmitCall(c, event, data) /\ UNCHANGED pairVars
  \/ \E c \in Callers : Settle(c)

SpecLive ==
  /\ Init
  /\ [][NextEmits]_vars
  /\ \A c \in Callers : WF_vars(Settle(c))

\* C19 as stated: while an emit is suspended at the store, the target it
\* consumed is still set.
C19_Original ==
  \A c \in Callers : call[c].pc = "publish" => targetRoom # Null

\* C19: when the store settles every publish, every emit call returns control
\* to its caller, and the target room is unset when it does. An emit clears
\* the target only as it returns: the call that suspends at the publish
\* leaves the target as it found it, and the target changes only in a to or
\* in a step in which some emit returns (so a to or the return of another
\* emit can change or clear it while an emit is still suspended).
C19_EmitReturnsAndClears ==
  /\ \A c \in Callers : (call[c].pc = "publish") ~> (call[c].pc = "idle")
  /\ [][ /\ (EmitReturned(out') => targetRoom' = Null)
         /\ (\A c \in Callers : EmitBegins(c) => targetRoom' = targetRoom)
         /\ (targetRoom' # targetRoom => out'.op = "to" \/ EmitReturned(out'))
       ]_vars

\* an emit that was suspended at the store has returned after a successful
\* publish, the target is unset, and another emit is still suspended
C19_Witness ==
  /\ out.op = "emit"
  /\ out.phase = "resume"
  /\ out.settled = "ok"
  /\ out.ret = "returned"
  /\ call[out.caller].pc = "idle"
  /\ targetRoom = Null
  /\ EmitSuspended

====
